---- MODULE Spec2Model ----
(***************************************************************************)
(* One lwIP TCP connection of go-tun2socks (core/tcp_conn.go): the tcpConn *)
(* object, the three locks around it (lwipMutex, the embedded flag mutex,  *)
(* canWrite.L), the connection registry tcpConns, and the threads that run *)
(* its methods: threads that drive the lwIP engine and so run the          *)
(* callbacks (Sent, Poll, Err, Receive, creation), and Handler-side        *)
(* threads that call Write, Close, Abort and LocalDidClose.                *)
(*                                                                         *)
(* Every method is cut at the points where another thread can interleave:  *)
(* lock operations, flag reads (each isX() is one critical section of the  *)
(* flag mutex), registry operations, native calls and Handler calls.       *)
(* pc[t] names the statement thread t executes next.                       *)
(***************************************************************************)
EXTENDS Integers, Sequences, FiniteSets, TLC

\* ---------------------------------------------------------------- bounds
MaxLen == 2
SndBufSize == 1
MaxLocalCloses == 1

\* Threads that enter lwIP under lwipMutex (packet input, timers), and the
\* Handler's goroutines: one that writes to the connection, and one that
\* calls Close, Abort and LocalDidClose.
Engines == {"e1", "e2"}
Writers == {"w1"}
Controllers == {"c1"}
Threads == Engines \cup Writers \cup Controllers

\* Spec has one thread driving the engine; SpecMT has both.
SpecThreads == {"e1"} \cup Writers \cup Controllers

NoThread == "none"

\* The byte slice a caller passes to Write: n distinct bytes.
Input(n) == [i \in 1..n |-> i]
Inputs == {Input(n) : n \in 0..MaxLen}

VARIABLES
    lwipMutex,      \* holder of the global lwIP lock, or NoThread
    gateLocked,     \* canWrite.L (a sync.Mutex: locked or not, no owner)
    closing,        \* conn.closing
    localClosed,    \* conn.localClosed
    aborting,       \* conn.aborting
    created,        \* "no", "running", "ok", "failed": NewTCPConnection's progress
    handlerRegistered, \* tcpConnectionHandler != nil
    connKnown,      \* the Handler holds the conn (Connect accepted it)
    registry,       \* tcpConns holds conn.connKey
    argAllocs,      \* NewConnKeyArg calls
    argFrees,       \* FreeConnKeyArg calls
    cancelled,      \* conn.ctx is cancelled
    cancelCalls,    \* conn.cancel() calls
    cbInstalled,    \* the pcb carries this connection's arg and callbacks
    pcb,            \* "live", "closed", "aborted", "freed"
    unacked,        \* bytes in the pcb's send queue; snd_buf = tcpSndBuf - unacked
    pc,             \* per thread: next statement
    op,             \* per thread: the method it is running
    input,          \* per thread: the data its Write was called with
    data,           \* per thread: Write's remaining data
    totalWritten,   \* per thread: Write's totalWritten
    toWrite,        \* per thread: Write's toWrite
    sndBuf,         \* per thread: the conn.pcb.snd_buf Write read
    found,          \* per thread: Release's found
    relFrom,        \* per thread: the caller of the Release it is running
    hErr,           \* per thread: the error a Handler call returned
    ret,            \* per thread: what its last method returned
    accepted,       \* per thread: chunks the engine accepted for its Write
    entry,          \* per thread: localClosed when its Write was called, or
                    \* aborting when its Sent or Poll was invoked
    nat,            \* the last native call made on the pcb
    hcall,          \* the last Handler method invoked
    nClose,         \* closeInternal executions
    nAbort,         \* abortInternal executions
    nErr,           \* Err executions
    tcpAborts,      \* tcp_abort calls
    localCloses,    \* LocalDidClose calls started
    tcpSndBuf,      \* the size of the pcb's send buffer (TCP_SND_BUF)
    counting,       \* Wait() calls are being counted
    blocks,         \* per thread: canWrite.Wait() calls of its Write, when counted
    windows         \* per thread: snd_buf read in each lock window of its Write, when counted

lockVars == <<lwipMutex, gateLocked>>
flagVars == <<closing, localClosed, aborting>>
newVars == <<created, handlerRegistered, connKnown, argAllocs>>
relVars == <<registry, argFrees>>
cancelVars == <<cancelled, cancelCalls>>
pcbVars == <<cbInstalled, pcb, unacked>>
writeVars == <<input, data, totalWritten, toWrite, sndBuf, accepted>>
frameVars == <<found, relFrom, hErr>>
obsVars == <<nClose, nAbort, nErr, tcpAborts>>
budgetVars == <<localCloses>>

vars == <<lwipMutex, gateLocked, closing, localClosed, aborting, created,
          handlerRegistered, connKnown, registry, argAllocs, argFrees,
          cancelled, cancelCalls, cbInstalled, pcb, unacked, pc, op, input,
          data, totalWritten, toWrite, sndBuf, found, relFrom, hErr, ret,
          accepted, entry, nat, hcall, nClose, nAbort, nErr, tcpAborts,
          localCloses, tcpSndBuf, counting, blocks, windows>>

\* ---------------------------------------------------------------- helpers
NoRet == [op |-> "none", n |-> 0, err |-> FALSE, code |-> "none"]
NoNat == [call |-> "none", by |-> NoThread, held |-> TRUE, pcb |-> "live",
          during |-> "none", unacked |-> 0]
NoHCall == [method |-> "none", by |-> NoThread, held |-> FALSE]
NoEntry == FALSE

\* C.u16_t(len(data)): the length tcp_write is given.
U16(n) == n % 65536

RECURSIVE SumLen(_)
SumLen(chunks) ==
    IF chunks = <<>> THEN 0
    ELSE Len(Head(chunks).bytes) + SumLen(Tail(chunks))

RECURSIVE Concat(_)
Concat(chunks) ==
    IF chunks = <<>> THEN <<>>
    ELSE Head(chunks).bytes \o Concat(Tail(chunks))

\* A native call by thread t: what it was, whether t held lwipMutex, and
\* the state of the pcb it was made on.
Native(t, call) ==
    nat' = [call |-> call, by |-> t, held |-> (lwipMutex = t), pcb |-> pcb,
            during |-> op[t], unacked |-> unacked]

\* A Handler method invoked by thread t.
HandlerCall(t, method) ==
    hcall' = [method |-> method, by |-> t, held |-> (lwipMutex = t)]

\* canWrite.Broadcast(): every goroutine parked in canWrite.Wait() becomes
\* runnable and must re-take canWrite.L.
Broadcast(p) == [t \in Threads |-> IF p[t] = "w_waiting" THEN "w_relock" ELSE p[t]]

Goto(t, label) == pc' = [pc EXCEPT ![t] = label]

Init ==
    /\ lwipMutex = NoThread
    /\ gateLocked = FALSE
    /\ closing = FALSE
    /\ localClosed = FALSE
    /\ aborting = FALSE
    /\ created = "no"
    /\ handlerRegistered \in BOOLEAN
    /\ connKnown = FALSE
    /\ registry = FALSE
    /\ argAllocs = 0
    /\ argFrees = 0
    /\ cancelled = FALSE
    /\ cancelCalls = 0
    /\ cbInstalled = FALSE
    /\ pcb = "live"
    /\ unacked = 0
    /\ pc = [t \in Threads |-> "idle"]
    /\ op = [t \in Threads |-> "none"]
    /\ input = [t \in Threads |-> <<>>]
    /\ data = [t \in Threads |-> <<>>]
    /\ totalWritten = [t \in Threads |-> 0]
    /\ toWrite = [t \in Threads |-> 0]
    /\ sndBuf = [t \in Threads |-> 0]
    /\ found = [t \in Threads |-> FALSE]
    /\ relFrom = [t \in Threads |-> "none"]
    /\ hErr = [t \in Threads |-> FALSE]
    /\ ret = [t \in Threads |-> NoRet]
    /\ accepted = [t \in Threads |-> <<>>]
    /\ entry = [t \in Threads |-> NoEntry]
    /\ nat = NoNat
    /\ hcall = NoHCall
    /\ nClose = 0
    /\ nAbort = 0
    /\ nErr = 0
    /\ tcpAborts = 0
    /\ localCloses = 0
    /\ tcpSndBuf = SndBufSize
    /\ counting = FALSE
    /\ blocks = [t \in Threads |-> 0]
    /\ windows = [t \in Threads |-> <<>>]

\* ------------------------------------------------------------ tcpConn.Write
\* Lines 142-146: write at most the size of the lwIP send buffer.
Clamp(len, buf) == IF len > buf THEN buf ELSE len

\* The slice taken one byte early: the last byte written is kept.
AdvanceOffByOne(d, written) == SubSeq(d, written, Len(d))

\* Line 155: data = data[written:len(data)].
Advance(d, written) == SubSeq(d, written + 1, Len(d))

\* A loop that parks after every lock window, also after the last one.
AfterWindowAlwaysWait(d) == "w_wait"

\* Lines 158-161: don't block if all the data has been written.
AfterWindow(d) == IF Len(d) = 0 THEN "w_unlockGate" ELSE "w_wait"

\* What conn.pcb.snd_buf yields. A pcb the engine has let go of is memory
\* the engine may have reused: any value.
SndBufValues == IF pcb = "live" THEN {tcpSndBuf - unacked} ELSE 0..tcpSndBuf

\* What tcp_write can answer for n bytes.
TcpWriteResults(n) ==
    IF pcb = "live" /\ unacked + n > tcpSndBuf
    THEN {"ERR_MEM", "ERR_OTHER"}
    ELSE {"ERR_OK", "ERR_MEM", "ERR_OTHER"}

\* Where Write returns to: its caller on the Handler side, or Sent (line
\* 169) when the Handler's DidSend called it.
WriteReturn(t) == IF t \in Engines THEN "cs_chkLocalClosed" ELSE "done"

StartWrite(t, d) ==
    /\ UNCHANGED <<tcpSndBuf, counting>>
    /\ t \in Writers
    /\ pc[t] = "idle"
    /\ connKnown
    /\ op' = [op EXCEPT ![t] = "Write"]
    /\ input' = [input EXCEPT ![t] = d]
    /\ data' = [data EXCEPT ![t] = d]
    /\ totalWritten' = [totalWritten EXCEPT ![t] = 0]
    /\ toWrite' = [toWrite EXCEPT ![t] = 0]
    /\ sndBuf' = [sndBuf EXCEPT ![t] = 0]
    /\ accepted' = [accepted EXCEPT ![t] = <<>>]
    /\ entry' = [entry EXCEPT ![t] = localClosed]
    /\ blocks' = [blocks EXCEPT ![t] = 0]
    /\ windows' = [windows EXCEPT ![t] = <<>>]
    /\ ret' = [ret EXCEPT ![t] = NoRet]
    /\ Goto(t, "w_lockGate")
    /\ UNCHANGED <<lockVars, flagVars, newVars, relVars, cancelVars, pcbVars,
                   frameVars, obsVars, budgetVars>>
    /\ nat' = NoNat
    /\ hcall' = NoHCall

\* Line 132: conn.canWrite.L.Lock().
W_LockGate(t) ==
    /\ UNCHANGED <<tcpSndBuf, counting, blocks, windows>>
    /\ pc[t] = "w_lockGate"
    /\ ~gateLocked
    /\ gateLocked' = TRUE
    /\ Goto(t, "w_loop")
    /\ UNCHANGED <<lwipMutex, flagVars, newVars, relVars, cancelVars,
                   pcbVars, op, writeVars, frameVars, ret, entry, obsVars,
                   budgetVars>>
    /\ nat' = NoNat
    /\ hcall' = NoHCall

\* Lines 133-136: the loop condition and the localClosed check.
W_Loop(t) ==
    /\ UNCHANGED <<tcpSndBuf, counting, blocks, windows>>
    /\ pc[t] = "w_loop"
    /\ IF Len(data[t]) = 0
       THEN /\ Goto(t, "w_unlockGate")
            /\ UNCHANGED ret
       ELSE IF localClosed
       THEN /\ ret' = [ret EXCEPT ![t] = [op |-> "Write", n |-> 0, err |-> TRUE,
                                           code |-> "closed by local"]]
            /\ Goto(t, WriteReturn(t))
       ELSE /\ Goto(t, "w_chkAborting")
            /\ UNCHANGED ret
    /\ UNCHANGED <<lockVars, flagVars, newVars, relVars, cancelVars, pcbVars,
                   op, writeVars, frameVars, entry, obsVars, budgetVars>>
    /\ nat' = NoNat
    /\ hcall' = NoHCall

\* Lines 137-139.
W_ChkAborting(t) ==
    /\ UNCHANGED <<tcpSndBuf, counting, blocks, windows>>
    /\ pc[t] = "w_chkAborting"
    /\ IF aborting
       THEN /\ ret' = [ret EXCEPT ![t] = [op |-> "Write", n |-> 0, err |-> TRUE,
                                           code |-> "aborting"]]
            /\ Goto(t, WriteReturn(t))
       ELSE /\ Goto(t, "w_lockLwip")
            /\ UNCHANGED ret
    /\ UNCHANGED <<lockVars, flagVars, newVars, relVars, cancelVars, pcbVars,
                   op, writeVars, frameVars, entry, obsVars, budgetVars>>
    /\ nat' = NoNat
    /\ hcall' = NoHCall

\* Lines 141-147 (and 157-160 when nothing can be written): lwipMutex.Lock(),
\* read snd_buf and clamp; with toWrite = 0 the lock is released at once.
W_ReadBuf(t) ==
    /\ UNCHANGED <<tcpSndBuf, counting, blocks>>
    /\ pc[t] = "w_lockLwip"
    /\ lwipMutex = NoThread
    /\ \E b \in SndBufValues :
         /\ sndBuf' = [sndBuf EXCEPT ![t] = b]
         /\ toWrite' = [toWrite EXCEPT ![t] = Clamp(Len(data[t]), b)]
         /\ windows' = [windows EXCEPT ![t] =
                             IF counting THEN Append(@, b) ELSE @]
    /\ nat' = [call |-> "snd_buf", by |-> t, held |-> TRUE, pcb |-> pcb,
               during |-> op[t], unacked |-> unacked]
    /\ IF toWrite'[t] > 0
       THEN /\ lwipMutex' = t
            /\ Goto(t, "w_tcpWrite")
       ELSE /\ lwipMutex' = NoThread
            /\ Goto(t, "w_wait")
    /\ UNCHANGED <<gateLocked, flagVars, newVars, relVars, cancelVars, pcbVars,
                   op, input, data, totalWritten, accepted, frameVars, ret,
                   entry, obsVars, budgetVars>>
    /\ hcall' = NoHCall

\* Line 148 with tcpWrite's tcp_write call (line 120). ERR_OK: the engine has
\* taken the chunk, tcp_output follows under the same lock. ERR_MEM: nothing
\* was taken (written = 0, no error) and lwipMutex is released at line 157.
\* Any other answer: lwipMutex is released at line 151, canWrite.L is still
\* held. The snd_buf read lives until here, toWrite until the chunk is counted.
W_TcpWrite(t) ==
    /\ UNCHANGED <<tcpSndBuf, counting, blocks, windows>>
    /\ pc[t] = "w_tcpWrite"
    /\ Native(t, "tcp_write")
    /\ LET chunk == SubSeq(data[t], 1, toWrite[t]) IN
       \E res \in TcpWriteResults(Len(chunk)) :
         CASE res = "ERR_OK" ->
                /\ accepted' = [accepted EXCEPT ![t] =
                       Append(@, [bytes |-> SubSeq(chunk, 1, U16(Len(chunk))),
                                  cap |-> sndBuf[t]])]
                /\ unacked' = IF pcb = "live" THEN unacked + U16(Len(chunk))
                              ELSE unacked
                /\ Goto(t, "w_tcpOutput")
                /\ UNCHANGED <<lwipMutex, toWrite>>
           [] res = "ERR_MEM" ->
                /\ lwipMutex' = NoThread
                /\ toWrite' = [toWrite EXCEPT ![t] = 0]
                /\ Goto(t, "w_wait")
                /\ UNCHANGED <<accepted, unacked>>
           [] OTHER ->
                /\ lwipMutex' = NoThread
                /\ toWrite' = [toWrite EXCEPT ![t] = 0]
                /\ Goto(t, "w_unlockErr")
                /\ UNCHANGED <<accepted, unacked>>
    /\ sndBuf' = [sndBuf EXCEPT ![t] = 0]
    /\ UNCHANGED <<gateLocked, flagVars, newVars, relVars, cancelVars,
                   cbInstalled, pcb, op, input, data, totalWritten, frameVars,
                   ret, entry, obsVars, budgetVars>>
    /\ hcall' = NoHCall

\* Lines 122-123 and 149-160: tcp_output, tcpWrite returns the chunk's length,
\* the chunk is counted and cut off the data, lwipMutex is released, and the
\* loop is left when no data remains.
W_TcpOutput(t) ==
    /\ UNCHANGED <<tcpSndBuf, counting, blocks, windows>>
    /\ pc[t] = "w_tcpOutput"
    /\ Native(t, "tcp_output")
    /\ lwipMutex' = NoThread
    /\ totalWritten' = [totalWritten EXCEPT ![t] = @ + toWrite[t]]
    /\ data' = [data EXCEPT ![t] = Advance(@, toWrite[t])]
    /\ toWrite' = [toWrite EXCEPT ![t] = 0]
    /\ Goto(t, AfterWindow(data'[t]))
    /\ UNCHANGED <<gateLocked, flagVars, newVars, relVars, cancelVars, pcbVars,
                   op, input, sndBuf, accepted, frameVars, ret, entry, obsVars,
                   budgetVars>>
    /\ hcall' = NoHCall

\* Lines 152-153, after tcp_write failed: conn.canWrite.L.Unlock() and
\* return totalWritten, err.
W_UnlockErr(t) ==
    /\ UNCHANGED <<tcpSndBuf, counting, blocks, windows>>
    /\ pc[t] = "w_unlockErr"
    /\ gateLocked' = FALSE
    /\ ret' = [ret EXCEPT ![t] = [op |-> "Write", n |-> totalWritten[t],
                                   err |-> TRUE, code |-> "tcp_write failed"]]
    /\ Goto(t, WriteReturn(t))
    /\ UNCHANGED <<lwipMutex, flagVars, newVars, relVars, cancelVars, pcbVars,
                   op, writeVars, frameVars, entry, obsVars, budgetVars>>
    /\ nat' = NoNat
    /\ hcall' = NoHCall

\* Line 161: conn.canWrite.Wait() releases canWrite.L and parks.
W_Wait(t) ==
    /\ UNCHANGED <<tcpSndBuf, counting, windows>>
    /\ pc[t] = "w_wait"
    /\ gateLocked' = FALSE
    /\ blocks' = [blocks EXCEPT ![t] = IF counting THEN @ + 1 ELSE @]
    /\ Goto(t, "w_waiting")
    /\ UNCHANGED <<lwipMutex, flagVars, newVars, relVars, cancelVars,
                   pcbVars, op, writeVars, frameVars, ret, entry, obsVars,
                   budgetVars>>
    /\ nat' = NoNat
    /\ hcall' = NoHCall

\* Line 161: woken by a Broadcast, Wait() re-takes canWrite.L and returns.
W_Relock(t) ==
    /\ UNCHANGED <<tcpSndBuf, counting, blocks, windows>>
    /\ pc[t] = "w_relock"
    /\ ~gateLocked
    /\ gateLocked' = TRUE
    /\ Goto(t, "w_loop")
    /\ UNCHANGED <<lwipMutex, flagVars, newVars, relVars, cancelVars,
                   pcbVars, op, writeVars, frameVars, ret, entry, obsVars,
                   budgetVars>>
    /\ nat' = NoNat
    /\ hcall' = NoHCall

\* Lines 163-165.
W_UnlockGate(t) ==
    /\ UNCHANGED <<tcpSndBuf, counting, blocks, windows>>
    /\ pc[t] = "w_unlockGate"
    /\ gateLocked' = FALSE
    /\ ret' = [ret EXCEPT ![t] = [op |-> "Write", n |-> totalWritten[t],
                                   err |-> FALSE, code |-> "nil"]]
    /\ Goto(t, WriteReturn(t))
    /\ UNCHANGED <<lwipMutex, flagVars, newVars, relVars, cancelVars,
                   pcbVars, op, writeVars, frameVars, entry, obsVars,
                   budgetVars>>
    /\ nat' = NoNat
    /\ hcall' = NoHCall

\* --------------------------------------------------------- tcpConn.Release
\* Line 279: tcpConns.Load(conn.connKey).
Rel_Load(t) ==
    /\ UNCHANGED <<tcpSndBuf, counting, blocks, windows>>
    /\ pc[t] = "rel_load"
    /\ found' = [found EXCEPT ![t] = registry]
    /\ Goto(t, IF registry THEN "rel_free"
               ELSE IF relFrom[t] = "closeInternal" THEN "ci_cancel"
               ELSE IF relFrom[t] = "abortInternal" THEN "ai_abort"
               ELSE "err_cancel")
    /\ relFrom' = [relFrom EXCEPT ![t] = IF registry THEN @ ELSE "none"]
    /\ UNCHANGED <<lockVars, flagVars, newVars, relVars, cancelVars, pcbVars,
                   op, writeVars, hErr, ret, entry, obsVars, budgetVars>>
    /\ nat' = NoNat
    /\ hcall' = NoHCall

\* Lines 280-281: FreeConnKeyArg(conn.connKeyArg) and
\* tcpConns.Delete(conn.connKey), and the return to the caller, which ends
\* Release's frame.
Rel_Free(t) ==
    /\ UNCHANGED <<tcpSndBuf, counting, blocks, windows>>
    /\ pc[t] = "rel_free"
    /\ argFrees' = argFrees + 1
    /\ registry' = FALSE
    /\ Goto(t, IF relFrom[t] = "closeInternal" THEN "ci_cancel"
               ELSE IF relFrom[t] = "abortInternal" THEN "ai_abort"
               ELSE "err_cancel")
    /\ found' = [found EXCEPT ![t] = FALSE]
    /\ relFrom' = [relFrom EXCEPT ![t] = "none"]
    /\ UNCHANGED <<lockVars, flagVars, newVars, cancelVars, pcbVars, op,
                   writeVars, hErr, ret, entry, obsVars, budgetVars>>
    /\ nat' = NoNat
    /\ hcall' = NoHCall

\* ------------------------------------------------------ tcpConn.CheckState
\* CheckState returns to Sent, Poll (which return to the engine) or to
\* LocalDidClose (which returns to its caller).
CsReturn(t, code) ==
    /\ ret' = [ret EXCEPT ![t] = [op |-> op[t], n |-> 0,
                                   err |-> (code # "ERR_OK"), code |-> code]]
    /\ pc' = [pc EXCEPT ![t] = IF t \in Engines THEN "e_ret" ELSE "done"]

\* Line 193 and line 200. isLocalClosed() takes the flag mutex, reads the flag
\* and releases the mutex (lines 186-190) before CheckState goes on, so the
\* read is a step of its own: setLocalClosed and a writer's Wait() can run
\* between it and the Broadcast of line 195. The flags are only ever set, so
\* once line 193 has read localClosed as true the condition of line 200 is
\* true as well.
Cs_ChkLocalClosed(t) ==
    /\ UNCHANGED <<tcpSndBuf, counting, blocks, windows>>
    /\ pc[t] = "cs_chkLocalClosed"
    /\ Goto(t, IF ~localClosed THEN "cs_broadcast"
               ELSE IF closing \/ localClosed THEN "ci_detach"
               ELSE "cs_chkAborting")
    /\ UNCHANGED <<lockVars, flagVars, newVars, relVars, cancelVars, pcbVars,
                   op, writeVars, frameVars, ret, entry, obsVars, budgetVars>>
    /\ nat' = NoNat
    /\ hcall' = NoHCall

\* Lines 195-197: line 193 read localClosed as false; wake the writers and
\* return ERR_OK, whatever the flag is by now.
Cs_Broadcast(t) ==
    /\ UNCHANGED <<tcpSndBuf, counting, blocks, windows>>
    /\ pc[t] = "cs_broadcast"
    /\ ret' = [ret EXCEPT ![t] = [op |-> op[t], n |-> 0, err |-> FALSE,
                                   code |-> "ERR_OK"]]
    /\ pc' = [Broadcast(pc) EXCEPT ![t] =
                  IF t \in Engines THEN "e_ret" ELSE "done"]
    /\ UNCHANGED <<lockVars, flagVars, newVars, relVars, cancelVars, pcbVars,
                   op, writeVars, frameVars, entry, obsVars, budgetVars>>
    /\ nat' = NoNat
    /\ hcall' = NoHCall

\* Lines 204-209: conn.isAborting(); abortInternal begins with Release.
Cs_ChkAborting(t) ==
    /\ UNCHANGED <<tcpSndBuf, counting, blocks, windows>>
    /\ pc[t] = "cs_chkAborting"
    /\ IF aborting
       THEN /\ nAbort' = nAbort + 1
            /\ relFrom' = [relFrom EXCEPT ![t] = "abortInternal"]
            /\ Goto(t, "rel_load")
            /\ UNCHANGED ret
       ELSE /\ CsReturn(t, "ERR_OK")
            /\ UNCHANGED <<nAbort, relFrom>>
    /\ UNCHANGED <<lockVars, flagVars, newVars, relVars, cancelVars, pcbVars,
                   op, writeVars, found, hErr, entry, hcall, nClose, nErr,
                   tcpAborts, budgetVars>>
    /\ nat' = NoNat

\* --------------------------------------------------- tcpConn.closeInternal
\* Lines 232-238: tcp_arg, tcp_recv, tcp_sent, tcp_err, tcp_poll set to nil,
\* then Release.
Ci_Detach(t) ==
    /\ UNCHANGED <<tcpSndBuf, counting, blocks, windows>>
    /\ pc[t] = "ci_detach"
    /\ Native(t, "tcp_detach")
    /\ cbInstalled' = FALSE
    /\ nClose' = nClose + 1
    /\ relFrom' = [relFrom EXCEPT ![t] = "closeInternal"]
    /\ Goto(t, "rel_load")
    /\ UNCHANGED <<lockVars, flagVars, newVars, relVars, cancelVars, pcb,
                   unacked, op, writeVars, found, hErr, ret, entry, nAbort,
                   nErr, tcpAborts, budgetVars>>
    /\ hcall' = NoHCall

\* Lines 240-249: conn.cancel(), then tcp_close; it may fail with ERR_MEM and
\* then leaves the pcb as it was. CheckState ignores closeInternal's result.
Ci_Close(t) ==
    /\ UNCHANGED <<tcpSndBuf, counting, blocks, windows>>
    /\ pc[t] = "ci_cancel"
    /\ cancelled' = TRUE
    /\ cancelCalls' = cancelCalls + 1
    /\ Native(t, "tcp_close")
    /\ \E res \in {"ERR_OK", "ERR_MEM"} :
         pcb' = IF pcb = "live" /\ res = "ERR_OK" THEN "closed" ELSE pcb
    /\ Goto(t, "cs_chkAborting")
    /\ UNCHANGED <<lockVars, flagVars, newVars, relVars, cbInstalled, unacked,
                   op, writeVars, frameVars, ret, entry, nClose, nAbort, nErr,
                   tcpAborts, budgetVars>>
    /\ hcall' = NoHCall

\* --------------------------------------------------- tcpConn.abortInternal
\* Line 254: tcp_abort, and CheckState's return of ERR_ABRT (line 206).
Ai_Abort(t) ==
    /\ UNCHANGED <<tcpSndBuf, counting, blocks, windows>>
    /\ pc[t] = "ai_abort"
    /\ Native(t, "tcp_abort")
    /\ tcpAborts' = tcpAborts + 1
    /\ pcb' = "aborted"
    /\ CsReturn(t, "ERR_ABRT")
    /\ UNCHANGED <<lockVars, flagVars, newVars, relVars, cancelVars,
                   cbInstalled, unacked, op, writeVars, frameVars, entry,
                   nClose, nAbort, nErr, budgetVars>>
    /\ hcall' = NoHCall

\* ------------------------------------------------- the engine's call sites
\* A thread enters lwIP under lwipMutex and the engine invokes one of the
\* callbacks installed on the pcb; the callback returns to the engine, which
\* then leaves lwIP and unlocks.
Dispatch(t) ==
    /\ t \in Engines
    /\ pc[t] = "idle"
    /\ lwipMutex = NoThread
    /\ cbInstalled
    /\ pcb = "live"
    /\ lwipMutex' = t
    /\ entry' = [entry EXCEPT ![t] = aborting]
    /\ UNCHANGED <<ret, budgetVars>>

\* The method's frame is gone once it has returned.
ClearFrame(t) ==
    /\ op' = [op EXCEPT ![t] = "none"]
    /\ input' = [input EXCEPT ![t] = <<>>]
    /\ data' = [data EXCEPT ![t] = <<>>]
    /\ totalWritten' = [totalWritten EXCEPT ![t] = 0]
    /\ toWrite' = [toWrite EXCEPT ![t] = 0]
    /\ sndBuf' = [sndBuf EXCEPT ![t] = 0]
    /\ accepted' = [accepted EXCEPT ![t] = <<>>]
    /\ found' = [found EXCEPT ![t] = FALSE]
    /\ relFrom' = [relFrom EXCEPT ![t] = "none"]
    /\ hErr' = [hErr EXCEPT ![t] = FALSE]
    /\ ret' = [ret EXCEPT ![t] = NoRet]
    /\ entry' = [entry EXCEPT ![t] = NoEntry]
    /\ blocks' = [blocks EXCEPT ![t] = 0]
    /\ windows' = [windows EXCEPT ![t] = <<>>]

\* The callback has returned to the engine, which leaves lwIP. A failed
\* creation is answered by the caller aborting the pcb.
EngineReturn(t) ==
    /\ UNCHANGED <<tcpSndBuf, counting>>
    /\ pc[t] = "e_ret"
    /\ lwipMutex' = NoThread
    /\ Goto(t, "idle")
    /\ IF op[t] = "New"
       THEN /\ created' = IF ret[t].err THEN "failed" ELSE "ok"
            /\ pcb' = IF ret[t].err THEN "aborted" ELSE pcb
       ELSE UNCHANGED <<created, pcb>>
    /\ ClearFrame(t)
    /\ UNCHANGED <<gateLocked, flagVars, handlerRegistered, connKnown,
                   argAllocs, relVars, cancelVars, cbInstalled, unacked,
                   obsVars, budgetVars>>
    /\ nat' = NoNat
    /\ hcall' = NoHCall

\* A Handler-side method has returned to its caller.
Finish(t) ==
    /\ UNCHANGED <<tcpSndBuf, counting>>
    /\ pc[t] = "done"
    /\ Goto(t, "idle")
    /\ ClearFrame(t)
    /\ UNCHANGED <<lockVars, flagVars, newVars, relVars, cancelVars, pcbVars,
                   obsVars, budgetVars>>
    /\ nat' = NoNat
    /\ hcall' = NoHCall

\* -------------------------------------------------------- NewTCPConnection
StartNew(t) ==
    /\ UNCHANGED <<tcpSndBuf, counting, blocks, windows>>
    /\ t \in Engines
    /\ pc[t] = "idle"
    /\ created = "no"
    /\ lwipMutex = NoThread
    /\ lwipMutex' = t
    /\ created' = "running"
    /\ op' = [op EXCEPT ![t] = "New"]
    /\ UNCHANGED entry
    /\ Goto(t, "new_key")
    /\ UNCHANGED <<gateLocked, flagVars, handlerRegistered, connKnown,
                   argAllocs, relVars, cancelVars, pcbVars, writeVars,
                   frameVars, ret, obsVars, budgetVars>>
    /\ nat' = NoNat
    /\ hcall' = NoHCall

\* Lines 38-44: the key argument is allocated, then the handler is looked up.
New_Key(t) ==
    /\ UNCHANGED <<tcpSndBuf, counting, blocks, windows>>
    /\ pc[t] = "new_key"
    /\ argAllocs' = argAllocs + 1
    /\ IF ~handlerRegistered
       THEN /\ ret' = [ret EXCEPT ![t] = [op |-> "New", n |-> 0, err |-> TRUE,
                                           code |-> "no handler"]]
            /\ Goto(t, "e_ret")
       ELSE /\ Goto(t, "new_store")
            /\ UNCHANGED ret
    /\ UNCHANGED <<lockVars, flagVars, created, handlerRegistered, connKnown,
                   relVars, cancelVars, pcbVars, op, writeVars, frameVars,
                   entry, obsVars, budgetVars>>
    /\ nat' = NoNat
    /\ hcall' = NoHCall

\* Line 65: tcpConns.Store(connKey, conn).
New_Store(t) ==
    /\ UNCHANGED <<tcpSndBuf, counting, blocks, windows>>
    /\ pc[t] = "new_store"
    /\ registry' = TRUE
    /\ Goto(t, "new_setCallbacks")
    /\ UNCHANGED <<lockVars, flagVars, newVars, argFrees, cancelVars,
                   pcbVars, op, writeVars, frameVars, ret, entry, obsVars,
                   budgetVars>>
    /\ nat' = NoNat
    /\ hcall' = NoHCall

\* Lines 68-73: tcp_arg and the four callbacks.
New_SetCallbacks(t) ==
    /\ UNCHANGED <<tcpSndBuf, counting, blocks, windows>>
    /\ pc[t] = "new_setCallbacks"
    /\ Native(t, "tcp_arg")
    /\ cbInstalled' = TRUE
    /\ Goto(t, "new_unlock")
    /\ UNCHANGED <<lockVars, flagVars, newVars, relVars, cancelVars, pcb,
                   unacked, op, writeVars, frameVars, ret, entry, obsVars,
                   budgetVars>>
    /\ hcall' = NoHCall

\* Lines 78-79: lwipMutex.Unlock() and handler.Connect(conn, RemoteAddr()),
\* which succeeds or fails; a Handler that accepts the connection keeps the
\* conn and may use it from its own goroutines.
New_Connect(t) ==
    /\ UNCHANGED <<tcpSndBuf, counting, blocks, windows>>
    /\ pc[t] = "new_unlock"
    /\ lwipMutex' = IF lwipMutex = t THEN NoThread ELSE lwipMutex
    /\ hcall' = [method |-> "Connect", by |-> t, held |-> (lwipMutex' = t)]
    /\ \E e \in BOOLEAN :
         /\ hErr' = [hErr EXCEPT ![t] = e]
         /\ connKnown' = ~e
    /\ Goto(t, "new_lock")
    /\ UNCHANGED <<gateLocked, flagVars, created, handlerRegistered, argAllocs,
                   relVars, cancelVars, pcbVars, op, writeVars, found, relFrom,
                   ret, entry, obsVars, budgetVars>>
    /\ nat' = NoNat

\* Lines 80-84: lwipMutex.Lock() and the result.
New_Lock(t) ==
    /\ UNCHANGED <<tcpSndBuf, counting, blocks, windows>>
    /\ pc[t] = "new_lock"
    /\ lwipMutex = NoThread
    /\ lwipMutex' = t
    /\ ret' = [ret EXCEPT ![t] = [op |-> "New", n |-> 0, err |-> hErr[t],
                                   code |-> IF hErr[t] THEN "connect failed"
                                            ELSE "nil"]]
    /\ Goto(t, "e_ret")
    /\ hErr' = [hErr EXCEPT ![t] = FALSE]
    /\ UNCHANGED <<gateLocked, flagVars, newVars, relVars, cancelVars,
                   pcbVars, op, writeVars, found, relFrom, entry, obsVars,
                   budgetVars>>
    /\ nat' = NoNat
    /\ hcall' = NoHCall

\* ------------------------------------------------------------ tcpConn.Sent
\* The engine reports n bytes of the send queue acknowledged. Lines 168-171:
\* conn.handler.DidSend(conn, len), then CheckState.
StartSent(t, n) ==
    /\ UNCHANGED <<tcpSndBuf, counting, blocks, windows>>
    /\ Dispatch(t)
    /\ n \in 1..unacked
    /\ unacked' = unacked - n
    /\ op' = [op EXCEPT ![t] = "Sent"]
    /\ hcall' = [method |-> "DidSend", by |-> t, held |-> (lwipMutex' = t)]
    /\ Goto(t, "cs_chkLocalClosed")
    /\ UNCHANGED <<gateLocked, flagVars, newVars, relVars, cancelVars,
                   cbInstalled, pcb, writeVars, frameVars, obsVars>>
    /\ nat' = NoNat

\* Lines 168-169 with a Handler whose DidSend writes d to the connection:
\* Write runs on the engine's thread, inside Sent, before CheckState.
Sent_DidSendWrite(t, n, d) ==
    /\ UNCHANGED <<tcpSndBuf, counting>>
    /\ Dispatch(t)
    /\ n \in 1..unacked
    /\ unacked' = unacked - n
    /\ op' = [op EXCEPT ![t] = "Sent"]
    /\ hcall' = [method |-> "DidSend", by |-> t, held |-> (lwipMutex' = t)]
    /\ input' = [input EXCEPT ![t] = d]
    /\ data' = [data EXCEPT ![t] = d]
    /\ totalWritten' = [totalWritten EXCEPT ![t] = 0]
    /\ toWrite' = [toWrite EXCEPT ![t] = 0]
    /\ sndBuf' = [sndBuf EXCEPT ![t] = 0]
    /\ accepted' = [accepted EXCEPT ![t] = <<>>]
    /\ blocks' = [blocks EXCEPT ![t] = 0]
    /\ windows' = [windows EXCEPT ![t] = <<>>]
    /\ Goto(t, "w_lockGate")
    /\ UNCHANGED <<gateLocked, flagVars, newVars, relVars, cancelVars,
                   cbInstalled, pcb, frameVars, obsVars>>
    /\ nat' = NoNat

\* ------------------------------------------------------------ tcpConn.Poll
\* Lines 285-287.
StartPoll(t) ==
    /\ UNCHANGED <<tcpSndBuf, counting, blocks, windows>>
    /\ Dispatch(t)
    /\ op' = [op EXCEPT ![t] = "Poll"]
    /\ Goto(t, "cs_chkLocalClosed")
    /\ UNCHANGED <<gateLocked, flagVars, newVars, relVars, cancelVars,
                   pcbVars, writeVars, frameVars, obsVars>>
    /\ nat' = NoNat
    /\ hcall' = NoHCall

\* ------------------------------------------------------------- tcpConn.Err
\* The engine has freed the pcb when it calls Err. Line 267: Release.
StartErr(t) ==
    /\ UNCHANGED <<tcpSndBuf, counting, blocks, windows>>
    /\ Dispatch(t)
    /\ pcb' = "freed"
    /\ cbInstalled' = FALSE
    /\ nErr' = nErr + 1
    /\ op' = [op EXCEPT ![t] = "Err"]
    /\ relFrom' = [relFrom EXCEPT ![t] = "Err"]
    /\ Goto(t, "rel_load")
    /\ UNCHANGED <<gateLocked, flagVars, newVars, relVars, cancelVars,
                   unacked, writeVars, found, hErr, nClose, nAbort,
                   tcpAborts>>
    /\ nat' = NoNat
    /\ hcall' = NoHCall

\* Err without its conn.cancel().
Err_DidCloseNoCancel(t) ==
    /\ UNCHANGED <<tcpSndBuf, counting, blocks, windows>>
    /\ pc[t] = "err_cancel"
    /\ HandlerCall(t, "DidClose")
    /\ ret' = [ret EXCEPT ![t] = [op |-> "Err", n |-> 0, err |-> FALSE,
                                   code |-> "none"]]
    /\ Goto(t, "e_ret")
    /\ UNCHANGED <<lockVars, flagVars, newVars, relVars, cancelVars, pcbVars,
                   op, writeVars, frameVars, entry, obsVars, budgetVars>>
    /\ nat' = NoNat

\* Lines 268-269: conn.cancel() and conn.handler.DidClose(conn).
Err_DidClose(t) ==
    /\ UNCHANGED <<tcpSndBuf, counting, blocks, windows>>
    /\ pc[t] = "err_cancel"
    /\ cancelled' = TRUE
    /\ cancelCalls' = cancelCalls + 1
    /\ HandlerCall(t, "DidClose")
    /\ ret' = [ret EXCEPT ![t] = [op |-> "Err", n |-> 0, err |-> FALSE,
                                   code |-> "none"]]
    /\ Goto(t, "e_ret")
    /\ UNCHANGED <<lockVars, flagVars, newVars, relVars, pcbVars, op,
                   writeVars, frameVars, entry, obsVars, budgetVars>>
    /\ nat' = NoNat

\* --------------------------------------------------------- tcpConn.Receive
StartReceive(t) ==
    /\ UNCHANGED <<tcpSndBuf, counting, blocks, windows>>
    /\ Dispatch(t)
    /\ op' = [op EXCEPT ![t] = "Receive"]
    /\ Goto(t, "rcv_chkClosing")
    /\ UNCHANGED <<gateLocked, flagVars, newVars, relVars, cancelVars,
                   pcbVars, writeVars, frameVars, obsVars>>
    /\ nat' = NoNat
    /\ hcall' = NoHCall

\* Lines 96-98.
Rcv_ChkClosing(t) ==
    /\ UNCHANGED <<tcpSndBuf, counting, blocks, windows>>
    /\ pc[t] = "rcv_chkClosing"
    /\ IF closing
       THEN /\ ret' = [ret EXCEPT ![t] = [op |-> "Receive", n |-> 0,
                           err |-> TRUE, code |-> "closed by remote"]]
            /\ Goto(t, "e_ret")
       ELSE /\ Goto(t, "rcv_chkAborting")
            /\ UNCHANGED ret
    /\ UNCHANGED <<lockVars, flagVars, newVars, relVars, cancelVars, pcbVars,
                   op, writeVars, frameVars, entry, obsVars, budgetVars>>
    /\ nat' = NoNat
    /\ hcall' = NoHCall

\* Lines 99-101.
Rcv_ChkAborting(t) ==
    /\ UNCHANGED <<tcpSndBuf, counting, blocks, windows>>
    /\ pc[t] = "rcv_chkAborting"
    /\ IF aborting
       THEN /\ ret' = [ret EXCEPT ![t] = [op |-> "Receive", n |-> 0,
                           err |-> TRUE, code |-> "aborting"]]
            /\ Goto(t, "e_ret")
       ELSE /\ Goto(t, "rcv_unlock")
            /\ UNCHANGED ret
    /\ UNCHANGED <<lockVars, flagVars, newVars, relVars, cancelVars, pcbVars,
                   op, writeVars, frameVars, entry, obsVars, budgetVars>>
    /\ nat' = NoNat
    /\ hcall' = NoHCall

\* Lines 105-106: lwipMutex.Unlock() and conn.handler.DidReceive(conn, data),
\* which succeeds or fails.
Rcv_DidReceive(t) ==
    /\ UNCHANGED <<tcpSndBuf, counting, blocks, windows>>
    /\ pc[t] = "rcv_unlock"
    /\ lwipMutex' = IF lwipMutex = t THEN NoThread ELSE lwipMutex
    /\ hcall' = [method |-> "DidReceive", by |-> t, held |-> (lwipMutex' = t)]
    /\ \E e \in BOOLEAN : hErr' = [hErr EXCEPT ![t] = e]
    /\ Goto(t, "rcv_lock")
    /\ UNCHANGED <<gateLocked, flagVars, newVars, relVars, cancelVars, pcbVars,
                   op, writeVars, found, relFrom, ret, entry, obsVars,
                   budgetVars>>
    /\ nat' = NoNat

\* A Receive that acknowledges the data whatever the Handler answered.
Rcv_RecvedAlways(t) ==
    /\ UNCHANGED <<tcpSndBuf, counting, blocks, windows>>
    /\ pc[t] = "rcv_lock"
    /\ lwipMutex = NoThread
    /\ lwipMutex' = t
    /\ ret' = [ret EXCEPT ![t] = [op |-> "Receive", n |-> 0, err |-> hErr[t],
                   code |-> IF hErr[t] THEN "write proxy failed" ELSE "nil"]]
    /\ nat' = [call |-> "tcp_recved", by |-> t, held |-> TRUE,
               pcb |-> pcb, during |-> op[t], unacked |-> unacked]
    /\ Goto(t, "e_ret")
    /\ hErr' = [hErr EXCEPT ![t] = FALSE]
    /\ UNCHANGED <<gateLocked, flagVars, newVars, relVars, cancelVars, pcbVars,
                   op, writeVars, found, relFrom, entry, obsVars, budgetVars>>
    /\ hcall' = NoHCall

\* Lines 107-112: lwipMutex.Lock(); the Handler's error is returned, or
\* tcp_recved tells the engine the data was consumed.
Rcv_Recved(t) ==
    /\ UNCHANGED <<tcpSndBuf, counting, blocks, windows>>
    /\ pc[t] = "rcv_lock"
    /\ lwipMutex = NoThread
    /\ lwipMutex' = t
    /\ IF hErr[t]
       THEN /\ ret' = [ret EXCEPT ![t] = [op |-> "Receive", n |-> 0,
                           err |-> TRUE, code |-> "write proxy failed"]]
            /\ nat' = NoNat
       ELSE /\ ret' = [ret EXCEPT ![t] = [op |-> "Receive", n |-> 0,
                           err |-> FALSE, code |-> "nil"]]
            /\ nat' = [call |-> "tcp_recved", by |-> t, held |-> TRUE,
                       pcb |-> pcb, during |-> op[t], unacked |-> unacked]
    /\ Goto(t, "e_ret")
    /\ hErr' = [hErr EXCEPT ![t] = FALSE]
    /\ UNCHANGED <<gateLocked, flagVars, newVars, relVars, cancelVars, pcbVars,
                   op, writeVars, found, relFrom, entry, obsVars, budgetVars>>
    /\ hcall' = NoHCall

\* --------------------------------------------- Close, Abort, LocalDidClose
HandlerSide(t) ==
    /\ t \in Controllers
    /\ pc[t] = "idle"
    /\ connKnown

\* Lines 212-220: one critical section of the flag mutex.
Close(t) ==
    /\ UNCHANGED <<tcpSndBuf, counting, blocks, windows>>
    /\ HandlerSide(t)
    /\ closing' = TRUE
    /\ UNCHANGED <<lockVars, localClosed, aborting, newVars, relVars,
                   cancelVars, pcbVars, pc, op, writeVars, frameVars, ret,
                   entry, obsVars, budgetVars>>
    /\ nat' = NoNat
    /\ hcall' = NoHCall

\* Lines 257-263: one critical section of the flag mutex.
Abort(t) ==
    /\ UNCHANGED <<tcpSndBuf, counting, blocks, windows>>
    /\ HandlerSide(t)
    /\ aborting' = TRUE
    /\ pc' = Broadcast(pc)
    /\ UNCHANGED <<lockVars, closing, localClosed, newVars, relVars,
                   cancelVars, pcbVars, op, writeVars, frameVars, ret, entry,
                   obsVars, budgetVars>>
    /\ nat' = NoNat
    /\ hcall' = NoHCall

\* Line 273: conn.handler.LocalDidClose(conn).
StartLocalDidClose(t) ==
    /\ UNCHANGED <<tcpSndBuf, counting, blocks, windows>>
    /\ HandlerSide(t)
    /\ localCloses < MaxLocalCloses
    /\ localCloses' = localCloses + 1
    /\ op' = [op EXCEPT ![t] = "LocalDidClose"]
    /\ HandlerCall(t, "LocalDidClose")
    /\ Goto(t, "ldc_setLocalClosed")
    /\ UNCHANGED <<lockVars, flagVars, newVars, relVars, cancelVars, pcbVars,
                   writeVars, frameVars, ret, entry, obsVars>>
    /\ nat' = NoNat

\* Lines 274 and 222-229: setLocalClosed, then CheckState (line 275).
Ldc_SetLocalClosed(t) ==
    /\ UNCHANGED <<tcpSndBuf, counting, blocks, windows>>
    /\ pc[t] = "ldc_setLocalClosed"
    /\ localClosed' = TRUE
    /\ pc' = [Broadcast(pc) EXCEPT ![t] = "cs_chkLocalClosed"]
    /\ UNCHANGED <<lockVars, closing, aborting, newVars, relVars, cancelVars,
                   pcbVars, op, writeVars, frameVars, ret, entry, obsVars,
                   budgetVars>>
    /\ nat' = NoNat
    /\ hcall' = NoHCall

\* -------------------------------------------------------------------- Next
WriteStep(t) ==
    \/ W_LockGate(t) \/ W_Loop(t) \/ W_ChkAborting(t) \/ W_ReadBuf(t)
    \/ W_TcpWrite(t) \/ W_TcpOutput(t) \/ W_UnlockErr(t)
           \/ W_Wait(t) \/ W_Relock(t) \/ W_UnlockGate(t)

ReleaseStep(t) == Rel_Load(t) \/ Rel_Free(t)

CheckStateStep(t) ==
    \/ Cs_ChkLocalClosed(t) \/ Cs_Broadcast(t) \/ Cs_ChkAborting(t)
    \/ Ci_Detach(t) \/ Ci_Close(t) \/ Ai_Abort(t)

NewStep(t) ==
    \/ StartNew(t) \/ New_Key(t) \/ New_Store(t) \/ New_SetCallbacks(t)
    \/ New_Connect(t) \/ New_Lock(t)

CallbackStep(t) ==
    \/ \E n \in 1..SndBufSize : StartSent(t, n)
    \/ StartPoll(t) \/ StartErr(t) \/ Err_DidClose(t)
    \/ StartReceive(t) \/ Rcv_ChkClosing(t) \/ Rcv_ChkAborting(t)
    \/ Rcv_DidReceive(t) \/ Rcv_Recved(t) \/ EngineReturn(t)

HandlerStep(t) ==
    \/ \E d \in Inputs : StartWrite(t, d)
    \/ Close(t) \/ Abort(t) \/ StartLocalDidClose(t)
    \/ Ldc_SetLocalClosed(t) \/ Finish(t)

Next ==
    \E t \in SpecThreads :
        \/ WriteStep(t) \/ ReleaseStep(t) \/ CheckStateStep(t)
        \/ NewStep(t) \/ CallbackStep(t) \/ HandlerStep(t)

Spec == Init /\ [][Next]_vars

\* -------------------------------------- a Handler that writes in DidSend
\* As Spec, with a Handler that may answer DidSend by writing to the
\* connection.
NextCB ==
    \/ Next
    \/ \E n \in 1..SndBufSize : \E d \in Inputs : Sent_DidSendWrite("e1", n, d)

SpecCB == Init /\ [][NextCB]_vars

\* ------------------------------------------- two threads drive the engine
\* Packet input and the timers enter lwIP from different goroutines, each
\* under lwipMutex; the Handler side calls Close, Abort and LocalDidClose.
\* Nothing is written, so there is nothing for Sent to acknowledge.
NextMT ==
    \E t \in Engines \cup Controllers :
        \/ ReleaseStep(t) \/ CheckStateStep(t) \/ NewStep(t)
        \/ StartPoll(t) \/ StartErr(t) \/ Err_DidClose(t)
        \/ StartReceive(t) \/ Rcv_ChkClosing(t) \/ Rcv_ChkAborting(t)
        \/ Rcv_DidReceive(t) \/ Rcv_Recved(t) \/ EngineReturn(t)
        \/ Close(t) \/ Abort(t) \/ StartLocalDidClose(t)
        \/ Ldc_SetLocalClosed(t) \/ Finish(t)

SpecMT == Init /\ [][NextMT]_vars

\* ------------------------------------------------- the 5000-byte scenario
\* An established connection whose send buffer holds ScenLen bytes, with
\* all but ScenCap1 of them in use; one Write of ScenLen bytes; tcp_write
\* answers as tcpWrite allows (accepted, ERR_MEM, another error) and the
\* engine acknowledges as many bytes as take the free send buffer from one of
\* the capacities ScenCap1, ScenCap2, ScenLen to a larger one. The Wait()
\* calls and the lock windows of the Write are recorded.
ScenLen == 5000
ScenCap1 == 1500
ScenCap2 == 3500
ScenCaps == {ScenCap1, ScenCap2, ScenLen}
ScenAcks == {b - a : a \in ScenCaps \cup {0}, b \in ScenCaps} \ (-ScenLen..0)

ScenInit ==
    /\ lwipMutex = NoThread
    /\ gateLocked = FALSE
    /\ closing = FALSE
    /\ localClosed = FALSE
    /\ aborting = FALSE
    /\ created = "ok"
    /\ handlerRegistered = TRUE
    /\ connKnown = TRUE
    /\ registry = TRUE
    /\ argAllocs = 1
    /\ argFrees = 0
    /\ cancelled = FALSE
    /\ cancelCalls = 0
    /\ cbInstalled = TRUE
    /\ pcb = "live"
    /\ tcpSndBuf = ScenLen
    /\ unacked = ScenLen - ScenCap1
    /\ counting = TRUE
    /\ blocks = [t \in Threads |-> 0]
    /\ windows = [t \in Threads |-> <<>>]
    /\ pc = [t \in Threads |-> "idle"]
    /\ op = [t \in Threads |-> "none"]
    /\ input = [t \in Threads |-> <<>>]
    /\ data = [t \in Threads |-> <<>>]
    /\ totalWritten = [t \in Threads |-> 0]
    /\ toWrite = [t \in Threads |-> 0]
    /\ sndBuf = [t \in Threads |-> 0]
    /\ found = [t \in Threads |-> FALSE]
    /\ relFrom = [t \in Threads |-> "none"]
    /\ hErr = [t \in Threads |-> FALSE]
    /\ ret = [t \in Threads |-> NoRet]
    /\ accepted = [t \in Threads |-> <<>>]
    /\ entry = [t \in Threads |-> NoEntry]
    /\ nat = NoNat
    /\ hcall = NoHCall
    /\ nClose = 0
    /\ nAbort = 0
    /\ nErr = 0
    /\ tcpAborts = 0
    /\ localCloses = 0

\* The scenario's Write is called when ScenCap1 bytes of send buffer are free.
ScenStartWrite(t) ==
    /\ unacked = ScenLen - ScenCap1
    /\ StartWrite(t, Input(ScenLen))

ScenNext ==
    \/ \E t \in Writers :
           \/ ScenStartWrite(t)
           \/ W_LockGate(t) \/ W_Loop(t) \/ W_ChkAborting(t) \/ W_ReadBuf(t)
           \/ W_TcpWrite(t) \/ W_TcpOutput(t) \/ W_UnlockErr(t)
           \/ W_Wait(t) \/ W_Relock(t) \/ W_UnlockGate(t)
           \/ Finish(t)
    \/ \E t \in {"e1"} :
           \/ \E n \in ScenAcks : StartSent(t, n)
           \/ Cs_ChkLocalClosed(t) \/ Cs_Broadcast(t)
           \/ EngineReturn(t)

ScenSpec == ScenInit /\ [][ScenNext]_vars

\* ------------------------------------------------------------------ claims
IsPrefix(a, b) == Len(a) <= Len(b) /\ SubSeq(b, 1, Len(a)) = a

\* A release has run to its end: closeInternal and Err cancel the context
\* after Release, abortInternal calls tcp_abort after Release.
Released == cancelled \/ tcpAborts > 0

\* C1: over the connection's lifetime at most one of closeInternal,
\* abortInternal and Err executes, once; and once a release has run the
\* registry holds no entry for the connection's key.
C1_OneReleasePath ==
    /\ nClose + nAbort + nErr <= 1
    /\ Released => ~registry

\* C2: whenever Write returns, the count it returns is the number of bytes
\* the engine accepted during that call.
C2_WriteReturnsAccepted ==
    \A t \in Writers :
        (pc[t] = "done" /\ ret[t].op = "Write")
            => ret[t].n = SumLen(accepted[t])

\* C3: the chunks the engine accepted for a Write, concatenated in the order
\* they were submitted, are at every moment a prefix of the input and, when
\* the Write returns without error, the input itself; every chunk is
\* non-empty and no longer than the snd_buf read in its lock window.
C3_ChunksInOrder ==
    \A t \in Writers :
        /\ IsPrefix(Concat(accepted[t]), input[t])
        /\ (pc[t] = "done" /\ ret[t].op = "Write" /\ ~ret[t].err)
               => Concat(accepted[t]) = input[t]
        /\ \A i \in 1..Len(accepted[t]) :
               /\ Len(accepted[t][i].bytes) >= 1
               /\ Len(accepted[t][i].bytes) <= accepted[t][i].cap

\* A Write of more than the send buffer holds returned without error after
\* the engine took it in two chunks.
C3_Witness ==
    \E t \in Writers :
        /\ pc[t] = "done"
        /\ ret[t].op = "Write"
        /\ ~ret[t].err
        /\ Len(accepted[t]) >= 2
        /\ Len(input[t]) = MaxLen

\* Some Write is inside its critical section of canWrite.L, or parked in
\* Wait(): canWrite.L is or will be released.
GateInUse ==
    \E u \in Writers :
        pc[u] \in {"w_loop", "w_chkAborting", "w_lockLwip", "w_tcpWrite",
                   "w_tcpOutput", "w_unlockErr", "w_wait", "w_unlockGate"}

\* C4: a Write of some bytes called with localClosed set fails at once: it
\* submits nothing, returns an error and a count of zero, and is never left
\* waiting for a canWrite.L that nobody is going to release.
C4_WriteAfterLocalClosedFails ==
    \A t \in Writers :
        (op[t] = "Write" /\ entry[t] /\ Len(input[t]) > 0) =>
            /\ accepted[t] = <<>>
            /\ pc[t] = "done" => (ret[t].err /\ ret[t].n = 0)
            /\ ~(pc[t] = "w_lockGate" /\ gateLocked /\ ~GateInUse)

\* C5: no Handler method is invoked by a thread that holds lwipMutex.
C5_HandlerCalledUnlocked == hcall.method # "none" => ~hcall.held

\* C6: every native call on the pcb is made by a thread that holds lwipMutex.
C6_NativeUnderLock == nat.call # "none" => nat.held

\* C7: no native call is made on a pcb that tcp_close, tcp_abort or the
\* engine's error path has already taken away.
C7_NoCallAfterInvalidated == nat.call # "none" => nat.pcb = "live"

\* C8: a Sent or Poll callback invoked with aborting set returns ERR_ABRT,
\* with the registry entry removed and tcp_abort issued.
C8_AbortedOnNextEvaluation ==
    \A t \in Engines :
        (pc[t] = "e_ret" /\ op[t] \in {"Sent", "Poll"} /\ entry[t]) =>
            /\ ret[t].code = "ERR_ABRT"
            /\ ~registry
            /\ pcb = "aborted"

\* C9: however often Abort is called and whatever follows, tcp_abort is
\* issued for the connection at most once.
C9_AbortTeardownOnce == tcpAborts <= 1

\* C10: LocalDidClose itself makes no closing native call while written
\* bytes are unacknowledged.
C10_NoCloseInsideLocalDidClose ==
    ~(/\ nat.call \in {"tcp_detach", "tcp_close"}
      /\ nat.during = "LocalDidClose"
      /\ nat.unacked > 0)

\* C11: under every interleaving of Err with a state evaluation, Release's
\* bookkeeping runs once: the key argument allocated at creation is freed at
\* most once.
C11_NoDoubleFree == argFrees <= 1

\* C12: the cancellation signal is one-shot and is triggered at release: it
\* is never triggered while the registry still holds the connection; once
\* tcp_close or tcp_abort has been issued, or Err has returned, it has been
\* triggered; every conn.cancel() leaves it triggered and nothing re-arms it,
\* so it goes from untriggered to triggered at most once (a second
\* conn.cancel() finds it triggered and changes nothing).
C12_CancelOnceAtRelease ==
    /\ [](/\ cancelled => ~registry
          /\ (cancelCalls > 0) <=> cancelled
          /\ (pcb \in {"closed", "aborted"} /\ created = "ok") => cancelled
          /\ \A t \in Engines :
                 (pc[t] = "e_ret" /\ op[t] = "Err") => cancelled)
    /\ [][/\ cancelled => cancelled'
          /\ (cancelCalls' # cancelCalls) => cancelled']_vars

\* Err has triggered the signal at release, and the closeInternal of a later
\* LocalDidClose has called conn.cancel() on the triggered signal.
C12_Witness == cancelled /\ ~registry /\ cancelCalls = 2 /\ nErr = 1 /\ nClose = 1

\* No callback will run CheckState again and every other thread has
\* finished what it was doing: no Broadcast is on its way.
NoBroadcastComing(t) ==
    /\ ~(cbInstalled /\ pcb = "live")
    /\ \A u \in Threads \ {t} : pc[u] \in {"idle", "done"}

\* C13: a Write is never left parked in canWrite.Wait() with localClosed or
\* aborting set and no Broadcast on its way: it is woken and returns an error.
C13_WriterWokenAtTerminal ==
    \A t \in Writers :
        ~(/\ pc[t] = "w_waiting"
          /\ (localClosed \/ aborting)
          /\ NoBroadcastComing(t))

\* A Write of ScenLen bytes has returned after exactly three lock windows in
\* which the engine reported a send-buffer capacity of ScenCap1, of ScenCap2
\* and of the whole buffer (no limit on what the writer still holds).
ScenWindows(t) ==
    /\ pc[t] = "done"
    /\ ret[t].op = "Write"
    /\ Len(input[t]) = ScenLen
    /\ windows[t] = <<ScenCap1, ScenCap2, ScenLen>>

C15_CloseReleasedOnNextEvaluation ==
    [][\A t \in Engines :
          ~(/\ pc[t] = "cs_chkLocalClosed"
            /\ op[t] \in {"Sent", "Poll"}
            /\ closing
            /\ nClose = 0
            /\ pc'[t] = "cs_broadcast")]_vars

\* Thread t takes a step of Receive.
ReceiveStep(t) ==
    /\ op[t] = "Receive"
    /\ pc[t] \in {"rcv_chkClosing", "rcv_chkAborting", "rcv_unlock", "rcv_lock"}
    /\ pc'[t] # pc[t]

\* C16: no step of Receive changes the flags, the registry or the pcb;
\* Receive rejects a closing or aborting connection without invoking the
\* Handler, naming which; a Handler error comes back as "write proxy
\* failed"; tcp_recved is called only after the Handler succeeded, never
\* when Receive returns an error; and Receive returns holding lwipMutex.
C16_ReceiveFailsWithoutSideEffects ==
    [][\A t \in Engines : ReceiveStep(t) =>
          /\ UNCHANGED <<flagVars, relVars, cancelVars, pcbVars>>
          /\ pc'[t] = "e_ret" => lwipMutex' = t
          /\ pc[t] \in {"rcv_chkClosing", "rcv_chkAborting"} =>
                 /\ hcall'.method = "none"
                 /\ lwipMutex' = t
          /\ (pc[t] = "rcv_chkClosing" /\ closing) =>
                 (pc'[t] = "e_ret" /\ ret'[t].code = "closed by remote")
          /\ (pc[t] = "rcv_chkAborting" /\ aborting) =>
                 (pc'[t] = "e_ret" /\ ret'[t].code = "aborting")
          /\ (pc[t] = "rcv_lock" /\ hErr[t]) =>
                 (ret'[t].err /\ ret'[t].code = "write proxy failed")
          /\ (pc'[t] = "e_ret" /\ ret'[t].err) => nat'.call # "tcp_recved"
          /\ nat'.call = "tcp_recved" => (pc[t] = "rcv_lock" /\ ~hErr[t])
      ]_vars

\* Receive has returned the error of a failed DidReceive.
C16_Witness ==
    \E t \in Engines :
        /\ pc[t] = "e_ret"
        /\ op[t] = "Receive"
        /\ ret[t].code = "write proxy failed"
        /\ lwipMutex = t

\* Thread t is inside a callback of the connection: the engine has invoked
\* it and it has not returned to the engine.
InCallback(t) ==
    /\ op[t] \in {"New", "Sent", "Poll", "Err", "Receive"}
    /\ pc[t] # "idle"

\* C17: at most one engine-driving thread is inside a callback of the
\* connection.
C17_CallbacksSerialized ==
    Cardinality({t \in Engines : InCallback(t)}) <= 1

\* C18: when Write returns it holds neither canWrite.L nor lwipMutex.
C18_WriteReturnsUnlocked ==
    \A t \in Writers :
        (pc[t] = "done" /\ ret[t].op = "Write") =>
            /\ ~gateLocked
            /\ lwipMutex # t

\* The thread inside the critical section of canWrite.L, if any.
GateHolders ==
    {u \in Threads : pc[u] \in {"w_loop", "w_chkAborting", "w_lockLwip",
                                 "w_tcpWrite", "w_tcpOutput", "w_unlockErr",
                                 "w_wait", "w_unlockGate"}}

\* Thread t is blocked in Lock() on a mutex that thread u holds.
WaitsFor(t, u) ==
    \/ /\ pc[t] \in {"w_lockLwip", "new_lock", "rcv_lock"}
       /\ lwipMutex = u
    \/ /\ pc[t] \in {"w_lockGate", "w_relock"}
       /\ gateLocked
       /\ u \in GateHolders

\* C19: no thread is blocked on a lock held by itself, and no two threads
\* are blocked on locks held by each other.
C19_NoDeadlock ==
    \A t, u \in Threads : ~(WaitsFor(t, u) /\ (u = t \/ WaitsFor(u, t)))

\* C20: when NewTCPConnection returns an error the registry holds no entry
\* for its key, the key argument it allocated has been freed and lwipMutex
\* is held as on entry; without a registered handler no callback was
\* installed and Connect was not invoked.
C20_FailedCreationLeavesNothing ==
    \A t \in Engines :
        (pc[t] = "e_ret" /\ op[t] = "New" /\ ret[t].err) =>
            /\ ~registry
            /\ argFrees = argAllocs
            /\ lwipMutex = t
            /\ ret[t].code = "no handler" => (~cbInstalled /\ ~connKnown)

====
